---- MODULE Spec2Model ----
(***************************************************************************)
(* Model of build_crane_database.py: the PDF content-stream decoder        *)
(* (extract_pdf_text), the chunk segmenter (split_candidates), the         *)
(* configuration extractor (extract_configurations), the load point        *)
(* extractor (extract_load_points) and the per-document part of            *)
(* build_database.                                                         *)
(*                                                                         *)
(* Text is a sequence of one-character strings.  Numbers are fixed-point   *)
(* integers, Scale units per 1.0, so 0.5 is 50 and 5000.01 is 500001.      *)
(* "absent" (Python None) is the value None.                               *)
(***************************************************************************)
EXTENDS Integers, Sequences, FiniteSets, TLC

\* ------------------------------------------------------------------ characters

UpperSeq ==
  <<"A","B","C","D","E","F","G","H","I","J","K","L","M",
    "N","O","P","Q","R","S","T","U","V","W","X","Y","Z">>

LowerSeq ==
  <<"a","b","c","d","e","f","g","h","i","j","k","l","m",
    "n","o","p","q","r","s","t","u","v","w","x","y","z">>

DigitSeq == <<"0","1","2","3","4","5","6","7","8","9">>

\* [A-Z]
IsUpper(c) == \E k \in DOMAIN UpperSeq : UpperSeq[k] = c

IsLower(c) == \E k \in DOMAIN LowerSeq : LowerSeq[k] = c

\* \d
IsDigit(c) == \E k \in DOMAIN DigitSeq : DigitSeq[k] = c

DigitVal(c) == (CHOOSE k \in DOMAIN DigitSeq : DigitSeq[k] = c) - 1

\* \s
IsSpace(c) == c \in {" ", "\t", "\n", "\r", "\f"}

\* \w
IsWord(c) == IsUpper(c) \/ IsLower(c) \/ IsDigit(c) \/ c = "_"

\* [\.,]
IsDecSep(c) == c \in {".", ","}

\* str.lower() on one character
ToLower(c) ==
  IF IsUpper(c) THEN LowerSeq[CHOOSE k \in DOMAIN UpperSeq : UpperSeq[k] = c] ELSE c

\* \b at position i: between s[i-1] and s[i] (i in 1..Len(s)+1)
WordBoundary(s, i) ==
  LET left  == i > 1 /\ IsWord(s[i - 1])
      right == i <= Len(s) /\ IsWord(s[i])
  IN  left # right

\* Length of the maximal run of upper-case letters / digits / whitespace at i.
UpperRun(s, i) ==
  CHOOSE n \in 0..(Len(s) + 1 - i) :
    /\ \A k \in 0..(n - 1) : IsUpper(s[i + k])
    /\ (i + n > Len(s) \/ ~IsUpper(s[i + n]))

DigitRun(s, i) ==
  CHOOSE n \in 0..(Len(s) + 1 - i) :
    /\ \A k \in 0..(n - 1) : IsDigit(s[i + k])
    /\ (i + n > Len(s) \/ ~IsDigit(s[i + n]))

SpaceRun(s, i) ==
  CHOOSE n \in 0..(Len(s) + 1 - i) :
    /\ \A k \in 0..(n - 1) : IsSpace(s[i + k])
    /\ (i + n > Len(s) \/ ~IsSpace(s[i + n]))

Min(a, b) == IF a <= b THEN a ELSE b

SetMax(S) == CHOOSE x \in S : \A y \in S : y <= x

SetMin(S) == CHOOSE x \in S : \A y \in S : x <= y

\* s[a..b-1]
Slice(s, a, b) == SubSeq(s, a, b - 1)

\* p[:n]
Prefix(s, n) == SubSeq(s, 1, Min(n, Len(s)))

\* Length of the run of whitespace that ends s.
TrailingSpaces(s) ==
  CHOOSE n \in 0..Len(s) :
    /\ \A k \in 0..(n - 1) : IsSpace(s[Len(s) - k])
    /\ (n = Len(s) \/ ~IsSpace(s[Len(s) - n]))

\* str.strip()
Strip(s) ==
  IF SpaceRun(s, 1) = Len(s) THEN <<>>
  ELSE SubSeq(s, 1 + SpaceRun(s, 1), Len(s) - TrailingSpaces(s))

\* re.sub(r"\s+", " ", s): each run of whitespace becomes one space, i.e. the
\* first character of a run becomes " " and the others are dropped.
CollapseWS(s) ==
  LET marked == [k \in 1..Len(s) |->
                   IF ~IsSpace(s[k]) THEN <<s[k], TRUE>>
                   ELSE <<" ", k = 1 \/ ~IsSpace(s[k - 1])>>]
      kept   == SelectSeq(marked, LAMBDA m : m[2])
  IN  [k \in 1..Len(kept) |-> kept[k][1]]

\* re.sub(r"\s+", " ", s).strip()
NormWS(s) == Strip(CollapseWS(s))

\* needle in hay
Contains(hay, needle) ==
  \E i \in 1..(Len(hay) - Len(needle) + 1) :
    \A k \in 1..Len(needle) : hay[i + k - 1] = needle[k]

\* str.lower()
Lower(s) == [k \in 1..Len(s) |-> ToLower(s[k])]

\* ------------------------------------------------------------------ numbers

\* Fixed-point scale of the model's numbers: Scale units per 1.0.
Scale == 100

\* Python None (an absent boom_length_m / radius_m, a failed parse_float).
None == -1

RECURSIVE IntOf(_, _, _)
\* The integer written by the digits s[a..b-1].
IntOf(s, a, b) ==
  IF b <= a THEN 0 ELSE IntOf(s, a, b - 1) * 10 + DigitVal(s[b - 1])

RECURSIVE Pow10(_)
Pow10(k) == IF k = 0 THEN 1 ELSE 10 * Pow10(k - 1)

\* float(value.replace(",", ".")), None when float() raises.  Digits beyond
\* the scale's resolution are truncated.
parse_float(value) ==
  LET n    == DigitRun(value, 1)
      k    == Len(value) - n - 1
      frac == IntOf(value, n + 2, Len(value) + 1)
  IN  IF n >= 1 /\ n = Len(value)
        THEN IntOf(value, 1, n + 1) * Scale
      ELSE IF /\ n >= 1 /\ k >= 1
              /\ IsDecSep(value[n + 1])
              /\ DigitRun(value, n + 2) = k
        THEN IntOf(value, 1, n + 1) * Scale + (frac * Scale) \div Pow10(k)
      ELSE None

\* Faulty variant: the lower bound is exclusive.
likely_value_exclusive(v, low, high) == low < v /\ v <= high

likely_value(v, low, high) == low <= v /\ v <= high

\* ------------------------------------------------------------------ patterns

\* End (exclusive) of the match of [A-Z]{1,4}(?:-[A-Z]{1,3})?\b at i, 0 when
\* there is none.  The regex prefers more letters, then a longer suffix, then
\* no suffix: the alternatives are ranked by 4*n + k.
CodeEnd(s, i) ==
  LET run  == UpperRun(s, i)
      alts == {nk \in (1..Min(4, run)) \X (0..3) :
                 LET n == nk[1]
                     k == nk[2]
                 IN  IF k = 0 THEN WordBoundary(s, i + n)
                     ELSE /\ i + n <= Len(s)
                          /\ s[i + n] = "-"
                          /\ k <= UpperRun(s, i + n + 1)
                          /\ WordBoundary(s, i + n + 1 + k)}
      best == CHOOSE nk \in alts :
                \A o \in alts : 4 * o[1] + o[2] <= 4 * nk[1] + nk[2]
  IN  IF alts = {} THEN 0
      ELSE IF best[2] = 0 THEN i + best[1] ELSE i + best[1] + 1 + best[2]

\* re.match(r"^([A-Z]{1,4}(?:-[A-Z]{1,3})?)\b", p): group(1), <<>> for no match.
LeadingCode(p) ==
  IF Len(p) >= 1 /\ CodeEnd(p, 1) # 0 THEN Slice(p, 1, CodeEnd(p, 1)) ELSE <<>>

RECURSIVE CodesFrom(_, _)
\* The matches of \b([A-Z]{1,4}(?:-[A-Z]{1,3})?)\b from i on, left to right
\* and non-overlapping: the scan resumes at the end of each match.
CodesFrom(s, i) ==
  LET starts == {j \in i..Len(s) :
                   IsUpper(s[j]) /\ WordBoundary(s, j) /\ CodeEnd(s, j) # 0}
      j      == SetMin(starts)
  IN  IF starts = {} THEN <<>>
      ELSE <<Slice(s, j, CodeEnd(s, j))>> \o CodesFrom(s, CodeEnd(s, j))

\* CONFIG_CODE_RE.findall(s)
CONFIG_CODE_RE_findall(s) == CodesFrom(s, 1)

\* End (exclusive) of the number of the match of
\*   (\d{1,maxInt}(?:[\.,]\d+)?)\s*unit   (followed by \b when needB)
\* at i, case-insensitive in the unit; 0 when there is none.  A number that
\* stops before the end of its digits is followed by a digit or a separator,
\* never by the unit, so at most one alternative succeeds.
NumUnitEnd(s, i, maxInt, unit, needB) ==
  LET run  == DigitRun(s, i)
      ints == {i + n : n \in 1..Min(run, maxInt)}
      fracs == UNION {IF e <= Len(s) /\ IsDecSep(s[e])
                        THEN {e + 1 + k : k \in 1..DigitRun(s, e + 1)}
                        ELSE {} : e \in ints}
      good == {e \in ints \cup fracs :
                 LET u == e + SpaceRun(s, e)
                 IN  /\ u <= Len(s)
                     /\ ToLower(s[u]) = unit
                     /\ (needB => WordBoundary(s, u + 1))}
  IN  IF good = {} THEN 0 ELSE SetMax(good)

\* Position after the unit of a match whose number ends at e.
AfterUnit(s, e) == e + SpaceRun(s, e) + 1

RECURSIVE NumbersFrom(_, _, _, _)
\* The matches from i on, left to right and non-overlapping.
NumbersFrom(s, i, maxInt, unit) ==
  LET starts == {j \in i..Len(s) :
                   IsDigit(s[j]) /\ NumUnitEnd(s, j, maxInt, unit, TRUE) # 0}
      j      == SetMin(starts)
      e      == NumUnitEnd(s, j, maxInt, unit, TRUE)
  IN  IF starts = {} THEN <<>>
      ELSE <<Slice(s, j, e)>> \o NumbersFrom(s, AfterUnit(s, e), maxInt, unit)

\* NUMBER_M_RE.findall(s)
NUMBER_M_RE_findall(s) == NumbersFrom(s, 1, 3, "m")

\* NUMBER_T_RE.findall(s)
NUMBER_T_RE_findall(s) == NumbersFrom(s, 1, 4, "t")

\* After a number that ends at e: the position after \s*m\s+ (the next number
\* must start there), 0 when e is 0 or no whitespace follows the unit.  \s+
\* takes the whole run of whitespace: a shorter one leaves whitespace where a
\* digit must follow.
NextNumber(s, e) ==
  IF e = 0 \/ SpaceRun(s, AfterUnit(s, e)) = 0 THEN 0
  ELSE AfterUnit(s, e) + SpaceRun(s, AfterUnit(s, e))

\* The number of TRIPLE_RE that starts at i (0: the match has failed already).
TripleNumber(s, i, maxInt, unit, needB) ==
  IF i = 0 THEN 0 ELSE NumUnitEnd(s, i, maxInt, unit, needB)

\* The match of TRIPLE_RE whose numbers are s[i..e1-1], s[i2..e2-1], s[i3..e3-1].
TripleMatch(s, i, e1, i2, e2, i3, e3) ==
  IF e3 = 0 THEN [ok |-> FALSE, groups |-> <<>>, next |-> 0]
  ELSE [ok |-> TRUE,
        groups |-> <<Slice(s, i, e1), Slice(s, i2, e2), Slice(s, i3, e3)>>,
        next |-> AfterUnit(s, e3)]

TripleThird(s, i, e1, i2, e2, i3) ==
  TripleMatch(s, i, e1, i2, e2, i3, TripleNumber(s, i3, 4, "t", TRUE))

TripleSecond(s, i, e1, i2, e2) == TripleThird(s, i, e1, i2, e2, NextNumber(s, e2))

TripleFirst(s, i, e1, i2) ==
  TripleSecond(s, i, e1, i2, TripleNumber(s, i2, 3, "m", FALSE))

\* The match of TRIPLE_RE at i: [ok, groups, next].
TripleAtFrom(s, i, e1) == TripleFirst(s, i, e1, NextNumber(s, e1))

TripleAt(s, i) == TripleAtFrom(s, i, NumUnitEnd(s, i, 3, "m", FALSE))

RECURSIVE TriplesFrom(_, _)
TriplesAfter(s, m) == <<m.groups>> \o TriplesFrom(s, m.next)

TriplesAmong(s, starts) ==
  IF starts = {} THEN <<>> ELSE TriplesAfter(s, TripleAt(s, SetMin(starts)))

\* The matches from i on, left to right and non-overlapping.
TriplesFrom(s, i) ==
  TriplesAmong(s, {j \in i..Len(s) : IsDigit(s[j]) /\ TripleAt(s, j).ok})

\* TRIPLE_RE.findall(s)
TRIPLE_RE_findall(s) == TriplesFrom(s, 1)

\* ------------------------------------------------------------------ chunks

\* Length of the delimiter \s{2,}|\s\|\s|\s-\s at i, 0 when there is none.
DelimLen(s, i) ==
  IF SpaceRun(s, i) >= 2 THEN SpaceRun(s, i)
  ELSE IF /\ i + 2 <= Len(s)
          /\ IsSpace(s[i])
          /\ s[i + 1] \in {"|", "-"}
          /\ IsSpace(s[i + 2])
    THEN 3
  ELSE 0

RECURSIVE SplitFrom(_, _)
\* The pieces of s from i on: up to the next delimiter, then after it.
SplitFrom(s, i) ==
  LET delims == {j \in i..Len(s) : IsSpace(s[j]) /\ DelimLen(s, j) > 0}
      j      == SetMin(delims)
  IN  IF delims = {} THEN <<Slice(s, i, Len(s) + 1)>>
      ELSE <<Slice(s, i, j)>> \o SplitFrom(s, j + DelimLen(s, j))

\* re.split(r"\s{2,}|\s\|\s|\s-\s", text)
split_candidates(text) == SplitFrom(text, 1)

\* ------------------------------------------------------------------ extract_configurations

CONFIG_HINTS ==
  <<<<"m","a","i","n"," ","b","o","o","m">>,
    <<"h","a","u","p","t","a","u","s","l","e","g","e","r">>,
    <<"j","i","b">>,
    <<"k","l","a","p","p","s","p","i","t","z","e">>,
    <<"l","u","f","f","i","n","g">>,
    <<"w","i","p","p">>,
    <<"f","l","y">>,
    <<"s","w","i","n","g","-","a","w","a","y">>,
    <<"o","f","f","s","e","t">>,
    <<"b","o","o","m">>>>

\* The tokens that are never a configuration key.
StopList ==
  {<<"P","D","F">>,
   <<"L","O","A","D">>,
   <<"C","H","A","R","T">>,
   <<"T","O","N">>,
   <<"M","T">>,
   <<"D","E","M","A","G">>,
   <<"T","E","R","E","X">>,
   <<"T","A","D","A","N","O">>,
   <<"G","R","O","V","E">>,
   <<"L","I","E","B","H","E","R","R">>}

UNKNOWN == <<"U","N","K","N","O","W","N">>

\* Chunks shorter than this (after normalization) yield no configuration.
MinConfigLen == 8

\* Chunks shorter than this (after normalization) yield no load point.
MinChunkLen == 4

\* Descriptions and snippets keep this many characters.
SnippetLen == 220

\* any(h in lower for h in CONFIG_HINTS)
HasHint(lower) == \E h \in DOMAIN CONFIG_HINTS : Contains(lower, CONFIG_HINTS[h])

\* The first code that is not on the stop-list, <<>> when there is none.
FirstCode(codes) ==
  LET ok == {k \in DOMAIN codes : codes[k] \notin StopList}
  IN  IF ok = {} THEN <<>> ELSE codes[SetMin(ok)]

\* A dict is the sequence of its <<key, value>> items in insertion order.
DictKeys(d) == {d[k][1] : k \in DOMAIN d}

\* d[key] = value
DictSet(d, key, value) ==
  IF key \in DictKeys(d)
    THEN [k \in DOMAIN d |-> IF d[k][1] = key THEN <<key, value>> ELSE d[k]]
    ELSE Append(d, <<key, value>>)

\* Faulty variant: the store is unconditional, a later chunk overwrites.
ConfigStoreOverwrite(configs, code, part_norm) ==
  DictSet(configs, code, Prefix(part_norm, SnippetLen))

\* if code not in configs: configs[code] = part_norm[:220]
ConfigStore(configs, code, part_norm) ==
  IF code \notin DictKeys(configs)
    THEN DictSet(configs, code, Prefix(part_norm, SnippetLen))
    ELSE configs

\* One iteration of the loop of extract_configurations.
\* codes = CONFIG_CODE_RE.findall(part_norm) and what follows it.
ConfigCodes(configs, part_norm, codes) ==
  IF codes = <<>> THEN configs
  ELSE IF FirstCode(codes) = <<>> THEN configs
  ELSE ConfigStore(configs, FirstCode(codes), part_norm)

ConfigNorm(configs, part_norm) ==
  IF Len(part_norm) < MinConfigLen THEN configs
  ELSE IF ~HasHint(Lower(part_norm)) THEN configs
  ELSE ConfigCodes(configs, part_norm, CONFIG_CODE_RE_findall(part_norm))

ConfigChunk(configs, part) == ConfigNorm(configs, NormWS(part))

RECURSIVE ConfigLoop(_, _, _)
ConfigLoop(configs, parts, i) ==
  IF i > Len(parts) THEN configs
  ELSE ConfigLoop(ConfigChunk(configs, parts[i]), parts, i + 1)

extract_configurations(text) == ConfigLoop(<<>>, split_candidates(text), 1)

\* ------------------------------------------------------------------ extract_load_points

\* Faulty variant: the configuration does not persist over a chunk without a code.
ConfigSwitchNoPersist(current_config, p) ==
  IF LeadingCode(p) # <<>> THEN LeadingCode(p) ELSE UNKNOWN

\* Config switch if chunk starts with a code.
ConfigSwitch(current_config, p) ==
  IF LeadingCode(p) # <<>> THEN LeadingCode(p) ELSE current_config

\* The plausibility test of the strong pattern.
TriplePlausible(boom, radius, cap) ==
  /\ likely_value(boom, 5 * Scale, 200 * Scale)
  /\ likely_value(radius, 1 * Scale, 200 * Scale)
  /\ likely_value(cap, Scale \div 2, 5000 * Scale)

RECURSIVE TripleRows(_, _, _, _)
\* Strong pattern: boom m, radius m, capacity t; one row per plausible match.
TripleRows(current_config, p, matches, k) ==
  IF k > Len(matches) THEN <<>>
  ELSE LET boom   == parse_float(matches[k][1])
           radius == parse_float(matches[k][2])
           cap    == parse_float(matches[k][3])
           rest   == TripleRows(current_config, p, matches, k + 1)
       IN  IF None \in {boom, radius, cap} THEN rest
           ELSE IF TriplePlausible(boom, radius, cap)
             THEN <<<<current_config, boom, radius, cap, Prefix(p, SnippetLen)>>>> \o rest
           ELSE rest

TriplePoints(current_config, p) ==
  TripleRows(current_config, p, TRIPLE_RE_findall(p), 1)

\* [parse_float(x) for x in xs]
ParseAll(xs) == [k \in DOMAIN xs |-> parse_float(xs[k])]

\* [x for x in xs if x is not None and likely_value(x, low, high)]
PlausibleOnly(xs, low, high) ==
  SelectSeq(xs, LAMBDA x : x # None /\ likely_value(x, low, high))

\* Faulty variant: the fallback takes the last plausible values.
FallbackPointsLast(current_config, p) ==
  LET ms == PlausibleOnly(ParseAll(NUMBER_M_RE_findall(p)), 5 * Scale, 200 * Scale)
      ts == PlausibleOnly(ParseAll(NUMBER_T_RE_findall(p)), Scale \div 2, 5000 * Scale)
  IN  IF ms # <<>> /\ ts # <<>>
        THEN <<<<current_config, ms[Len(ms)], None, ts[Len(ts)], Prefix(p, SnippetLen)>>>>
        ELSE <<>>

\* Faulty variant: the fallback emits one row per plausible ton value.
FallbackPointsEach(current_config, p) ==
  LET ms == PlausibleOnly(ParseAll(NUMBER_M_RE_findall(p)), 5 * Scale, 200 * Scale)
      ts == PlausibleOnly(ParseAll(NUMBER_T_RE_findall(p)), Scale \div 2, 5000 * Scale)
  IN  IF ms # <<>>
        THEN [n \in 1..Len(ts) |->
                <<current_config, ms[1], None, ts[n], Prefix(p, SnippetLen)>>]
        ELSE <<>>

\* Fallback pattern: one m and one t in same chunk.
FallbackPoints(current_config, p) ==
  LET ms == PlausibleOnly(ParseAll(NUMBER_M_RE_findall(p)), 5 * Scale, 200 * Scale)
      ts == PlausibleOnly(ParseAll(NUMBER_T_RE_findall(p)), Scale \div 2, 5000 * Scale)
  IN  IF ms # <<>> /\ ts # <<>>
        THEN <<<<current_config, ms[1], None, ts[1], Prefix(p, SnippetLen)>>>>
        ELSE <<>>

\* Faulty variant: no chunk is skipped.
ChunkNeverSkipped(p) == FALSE

\* if len(p) < 4: continue
ChunkSkipped(p) == Len(p) < MinChunkLen

\* One iteration of the first loop of extract_load_points:
\* [config |-> current_config after it, triple, fallback |-> the rows appended].
ChunkRows(cfg, p) ==
  [config |-> cfg, triple |-> TriplePoints(cfg, p), fallback |-> FallbackPoints(cfg, p)]

NormChunk(current_config, p) ==
  IF ChunkSkipped(p)
    THEN [config |-> current_config, triple |-> <<>>, fallback |-> <<>>]
    ELSE ChunkRows(ConfigSwitch(current_config, p), p)

PointsChunk(current_config, part) == NormChunk(current_config, NormWS(part))

\* Faulty variant: the key leaves the capacity out.
RowKeyWithoutCapacity(row) == SubSeq(row, 1, 3)

\* key = row[:4]
RowKey(row) == SubSeq(row, 1, 4)

\* One iteration of the de-duplication loop: [seen, unique] after row.
DedupRow(seen, unique, row) ==
  IF RowKey(row) \in seen
    THEN [seen |-> seen, unique |-> unique]
    ELSE [seen |-> seen \cup {RowKey(row)}, unique |-> Append(unique, row)]

RECURSIVE PointsLoop(_, _, _, _)
PointsLoop(current_config, points, parts, i) ==
  IF i > Len(parts) THEN points
  ELSE LET r == PointsChunk(current_config, parts[i])
       IN  PointsLoop(r.config, points \o r.triple \o r.fallback, parts, i + 1)

RECURSIVE DedupLoop(_, _, _, _)
DedupLoop(seen, unique, points, k) ==
  IF k > Len(points) THEN unique
  ELSE LET r == DedupRow(seen, unique, points[k])
       IN  DedupLoop(r.seen, r.unique, points, k + 1)

extract_load_points(text) ==
  DedupLoop({}, <<>>, PointsLoop(UNKNOWN, <<>>, split_candidates(text), 1), 1)

\* ------------------------------------------------------------------ extract_pdf_text

(***************************************************************************)
(* A file is a sequence of bytes.  A byte is a one-character string, the   *)
(* null byte is NUL, and the deflate-compressed bytes of a content stream  *)
(* are one opaque element, a key of Deflated (zlib is a library: the model *)
(* has its table, not its algorithm).                                      *)
(***************************************************************************)

NUL == "NUL"

\* A character outside Latin-1, decoded from a UTF-16 unit with a high byte.
Wide == "WIDE"

\* s[i..] starts with w
StartsWith(s, i, w) ==
  /\ i + Len(w) - 1 <= Len(s)
  /\ \A n \in 1..Len(w) : s[i + n - 1] = w[n]

\* The end (exclusive) of the match of stream\r?\n at j, 0 when there is none.
StreamMarkerEnd(data, j) ==
  IF ~StartsWith(data, j, <<"s", "t", "r", "e", "a", "m">>) THEN 0
  ELSE IF StartsWith(data, j + 6, <<"\r", "\n">>) THEN j + 8
  ELSE IF StartsWith(data, j + 6, <<"\n">>) THEN j + 7
  ELSE 0

\* [m.end() for m in re.finditer(rb"stream\r?\n", data)]: no two matches
\* overlap, so every position that matches is a match.
StreamStarts(data) ==
  LET marked == [j \in 1..Len(data) |-> StreamMarkerEnd(data, j)]
  IN  SelectSeq(marked, LAMBDA e : e # 0)

\* data.find(b"endstream", start), 0 for -1.
FindEndstream(data, start) ==
  LET hits == {j \in start..Len(data) :
                 StartsWith(data, j, <<"e", "n", "d", "s", "t", "r", "e", "a", "m">>)}
  IN  IF hits = {} THEN 0 ELSE SetMin(hits)

\* The stream without the line end before its terminator.
StripEol(stream) ==
  IF Len(stream) >= 2 /\ SubSeq(stream, Len(stream) - 1, Len(stream)) = <<"\r", "\n">>
    THEN SubSeq(stream, 1, Len(stream) - 2)
  ELSE IF Len(stream) >= 1 /\ stream[Len(stream)] = "\n"
    THEN SubSeq(stream, 1, Len(stream) - 1)
  ELSE stream

\* The content streams of the model, by the element that stands for their
\* compressed bytes:
\*   z1  one string, and a blank one
\*   z2  one array of two strings
\*   z3  a label, a separator, a row
\*   z4  an array, then a string
\*   z5  a string with escapes, then an array with a UTF-16 string
\*   z6  no text-showing operator
\*   z7  a row that starts with a code, no label
\*   z8  a row before the only label
Deflated ==
  [ z1 |-> <<"(","A",")"," ","T","j","\n","("," ",")"," ","T","j","\n">>,
    z2 |-> <<"[","(","B",")"," ","-","2","0"," ","(","C",")","]"," ","T","J","\n">>,
    z3 |-> <<"B","T"," ","(","M","B"," ","m","a","i","n"," ","b","o","o","m",")"," ","T","j"," ","(","|",")"," ","T","j","\n","(","1","2"," ","m"," ","8"," ","m"," ","4","5"," ","t",")"," ","T","j"," ","E","T","\n">>,
    z4 |-> <<"[","(","D",")","]"," ","T","J","\n","(","E",")"," ","T","j","\n">>,
    z5 |-> <<"(","F","\\","(","x","\\",")",")"," ","T","j"," ","[","(",NUL,"H",NUL,"i",")","]"," ","T","J","\n">>,
    z6 |-> <<"q"," ","1"," ","0"," ","0"," ","1"," ","0"," ","0"," ","c","m"," ","Q","\n">>,
    z7 |-> <<"(","A","B"," ","1","2"," ","m"," ","8"," ","m"," ","4","5"," ","t",")"," ","T","j","\n">>,
    z8 |-> <<"(","1","2"," ","m"," ","8"," ","m"," ","4","5"," ","t",")"," ","T","j"," ","(","-",")"," ","T","j"," ","(","M","B"," ","m","a","i","n"," ","b","o","o","m",")"," ","T","j","\n">> ]

\* Faulty variant: a failed decompression is not caught.
TryDecompressUncaught(stream) ==
  IF stream # <<>> /\ stream[1] \in DOMAIN Deflated
    THEN [outcome |-> "ok", decoded |-> Deflated[stream[1]]]
    ELSE [outcome |-> "raise", decoded |-> <<>>]

\* try: decoded = zlib.decompress(stream) / except Exception: continue.
\* zlib.decompress inflates the compressed data the bytes start with and
\* ignores what follows it; anything else raises.
TryDecompress(stream) ==
  IF stream # <<>> /\ stream[1] \in DOMAIN Deflated
    THEN [outcome |-> "ok", decoded |-> Deflated[stream[1]]]
    ELSE [outcome |-> "continue", decoded |-> <<>>]

\* s continues at q with \s* and then op (nothing when op is empty).
OperatorFollows(s, q, op) == StartsWith(s, q + SpaceRun(s, q), op)

RECURSIVE LiteralsFrom(_, _, _, _, _)
LiteralsAfter(s, a, b, open, close, op) ==
  <<Slice(s, a + 1, b)>>
    \o LiteralsFrom(s, IF op = <<>> THEN b + 1 ELSE b + 1 + SpaceRun(s, b + 1) + Len(op),
                    open, close, op)

LiteralsAmong(s, closes, opens, open, close, op) ==
  IF opens = {} THEN <<>>
  ELSE LiteralsAfter(s, SetMin(opens), SetMin({b \in closes : b > SetMin(opens)}),
                     open, close, op)

LiteralsClosing(s, i, closes, open, close, op) ==
  LiteralsAmong(s, closes,
                {a \in i..Len(s) : s[a] = open /\ \E b \in closes : b > a},
                open, close, op)

\* re.findall of  open(.*?)close\s*op  with re.S, from i on: a match starts at
\* the first open that a closing follows, and ends at the first closing after it.
LiteralsFrom(s, i, open, close, op) ==
  LiteralsClosing(s, i,
                  {b \in i..Len(s) : s[b] = close /\ OperatorFollows(s, b + 1, op)},
                  open, close, op)

\* re.findall(rb"\((.*?)\)\s*Tj", decoded, re.S)
TjLiterals(decoded) == LiteralsFrom(decoded, 1, "(", ")", <<"T", "j">>)

\* re.findall(rb"\[(.*?)\]\s*TJ", decoded, re.S)
TJArrays(decoded) == LiteralsFrom(decoded, 1, "[", "]", <<"T", "J">>)

\* re.findall(rb"\((.*?)\)", arr, re.S)
ArrayLiterals(arr) == LiteralsFrom(arr, 1, "(", ")", <<>>)

\* raw.replace(backslash + c, r): no two occurrences overlap.
ReplaceEscape(raw, c, r) ==
  LET marked == [j \in 1..Len(raw) |->
                   IF j < Len(raw) /\ raw[j] = "\\" /\ raw[j + 1] = c THEN <<r, TRUE>>
                   ELSE IF j > 1 /\ raw[j - 1] = "\\" /\ raw[j] = c THEN <<r, FALSE>>
                   ELSE <<raw[j], TRUE>>]
      kept   == SelectSeq(marked, LAMBDA m : m[2])
  IN  [j \in 1..Len(kept) |-> kept[j][1]]

\* raw.decode("utf-16-be", "ignore"): a unit with a null high byte is its low
\* byte, any other unit is a wide character, an odd last byte is ignored.
DecodeUtf16(raw) ==
  [j \in 1..(Len(raw) \div 2) |->
     IF raw[2 * j - 1] = NUL THEN raw[2 * j] ELSE Wide]

UnescapeParens(raw) == ReplaceEscape(ReplaceEscape(raw, "(", "("), ")", ")")

UnescapeBlanks(raw) ==
  ReplaceEscape(ReplaceEscape(ReplaceEscape(raw, "n", " "), "r", " "), "t", " ")

DecodeBytes(raw) ==
  IF \E j \in DOMAIN raw : raw[j] = NUL THEN DecodeUtf16(raw) ELSE raw

_decode_pdf_literal(raw) == DecodeBytes(UnescapeBlanks(UnescapeParens(raw)))

\* The texts of the literals: decoded, stripped, the empty ones dropped.
Fragments(literals) ==
  SelectSeq([j \in DOMAIN literals |-> Strip(_decode_pdf_literal(literals[j]))],
            LAMBDA f : f # <<>>)

RECURSIVE ArraysLiterals(_, _)
\* The literals of the arrays from the j-th on.
ArraysLiterals(arrays, j) ==
  IF j > Len(arrays) THEN <<>>
  ELSE ArrayLiterals(arrays[j]) \o ArraysLiterals(arrays, j + 1)

\* The two loops over a decoded stream: the Tj literals, then the TJ arrays'.
ShownText(decoded) ==
  Fragments(TjLiterals(decoded)) \o Fragments(ArraysLiterals(TJArrays(decoded), 1))

\* if b"Tj" not in decoded and b"TJ" not in decoded: continue
DecodedText(decoded) ==
  IF ~Contains(decoded, <<"T", "j">>) /\ ~Contains(decoded, <<"T", "J">>)
    THEN <<>>
    ELSE ShownText(decoded)

DecompressedText(r) ==
  IF r.outcome = "ok" THEN [outcome |-> "ok", frags |-> DecodedText(r.decoded)]
  ELSE [outcome |-> r.outcome, frags |-> <<>>]

TerminatedStream(data, start, end) ==
  IF end = 0 THEN [outcome |-> "continue", frags |-> <<>>]
  ELSE DecompressedText(TryDecompress(StripEol(Slice(data, start, end))))

\* One iteration of the loop of extract_pdf_text, for the candidate that
\* starts at start: [outcome, frags |-> what it appends to chunks].
Candidate(data, start) == TerminatedStream(data, start, FindEndstream(data, start))

RECURSIVE JoinFrom(_, _)
JoinFrom(chunks, j) ==
  IF j > Len(chunks) THEN <<>>
  ELSE IF j = Len(chunks) THEN chunks[j]
  ELSE chunks[j] \o <<" ">> \o JoinFrom(chunks, j + 1)

\* re.sub(r"\s+", " ", " ".join(chunks)).strip()
JoinedText(chunks) == NormWS(JoinFrom(chunks, 1))

RECURSIVE CandidatesFrom(_, _, _)
CandidatesFrom(data, starts, j) ==
  IF j > Len(starts) THEN <<>>
  ELSE Candidate(data, starts[j]).frags \o CandidatesFrom(data, starts, j + 1)

extract_pdf_text(data) == JoinedText(CandidatesFrom(data, StreamStarts(data), 1))

\* ------------------------------------------------------------------ inputs

\* "MB": a code alone: shorter than MinChunkLen
ShortCode ==
  <<"M","B">>

\* "MB main boom": a configuration label
MainBoom ==
  <<"M","B"," ","m","a","i","n"," ","b","o","o","m">>

\* "MB jib offset 12 m 8 m 45 t": a second label of the same code, with a row
JibRow ==
  <<"M","B"," ","j","i","b"," ","o","f","f","s","e","t"," ","1","2"," ","m"," ","8"," ","m"," ","4","5"," ","t">>

\* "LOAD SL boom 12.0 m 8 m 45,0 t": a stop-list token before the code
StopRow ==
  <<"L","O","A","D"," ","S","L"," ","b","o","o","m"," ","1","2",".","0"," ","m"," ","8"," ","m"," ","4","5",",","0"," ","t">>

\* "12,0 m 8.0 m 45 t": a row without a code: the same numbers, written differently
PlainRow ==
  <<"1","2",",","0"," ","m"," ","8",".","0"," ","m"," ","4","5"," ","t">>

\* "12 m 1 m 0.5 t 200 m 3 m 5000 t": two rows in one chunk, on the edges of the ranges
TwoRows ==
  <<"1","2"," ","m"," ","1"," ","m"," ","0",".","5"," ","t"," ","2","0","0"," ","m"," ","3"," ","m"," ","5","0","0","0"," ","t">>

\* "4 m 201 m 0.49 t 18.3 m 5000.01 t 22 t": implausible values before plausible ones
BadRow ==
  <<"4"," ","m"," ","2","0","1"," ","m"," ","0",".","4","9"," ","t"," ","1","8",".","3"," ","m"," ","5","0","0","0",".","0","1"," ","t"," ","2","2"," ","t">>

\* "SL boom": a label shorter than MinConfigLen
ShortLabel ==
  <<"S","L"," ","b","o","o","m">>

\* "TON boom data": a label whose only code is on the stop-list
StopOnly ==
  <<"T","O","N"," ","b","o","o","m"," ","d","a","t","a">>

\* Filler of a chunk longer than SnippetLen.
Filler == [k \in 1..SnippetLen |-> "x"]

\* "SL-X jib 6 m 0.99 m 9 t xxx...": a label with a row, longer than SnippetLen
LongRow ==
  <<"S","L","-","X"," ","j","i","b"," ","6"," ","m"," ","0",".","9","9"," ","m"," ","9"," ","t"," ">> \o Filler

Pieces ==
  {ShortCode, MainBoom, JibRow, StopRow, PlainRow, TwoRows, BadRow, ShortLabel,
   StopOnly, LongRow}

\* The delimiters of split_candidates, one after each piece in turn.
Delims == <<<<" ", "-", " ">>, <<" ", " ">>, <<" ", "|", " ">>>>

\* The most pieces of one text.
MaxChunks == 2

RECURSIVE TextsOf(_)
\* The texts of n pieces, the k-th delimiter after the k-th piece.
TextsOf(n) ==
  IF n = 1 THEN Pieces
  ELSE {t \o Delims[((n - 2) % Len(Delims)) + 1] \o p : t \in TextsOf(n - 1), p \in Pieces}

Texts == UNION {TextsOf(n) : n \in 1..MaxChunks}

\* ------------------------------------------------------------------ state

VARIABLES
  text,            \* the text handed to the extractors
  pc,              \* where the run is
  parts,           \* split_candidates(text) of the running extractor
  idx,             \* the index of the next chunk (1-based)
  configs,         \* extract_configurations: configs
  current_config,  \* extract_load_points: current_config
  points,          \* extract_load_points: points
  origin,          \* history: for each row of points, its chunk and its pattern
  seen,            \* extract_load_points: seen
  unique,          \* extract_load_points: unique
  k,               \* the index of the next row of the de-duplication loop
  data,            \* extract_pdf_text: data
  layout,          \* history: the objects the file was written from
  starts,          \* extract_pdf_text: m.end() of the matches of the stream marker
  ci,              \* the index of the next match
  chunks,          \* extract_pdf_text: chunks
  pdfs,            \* build_database: the files, in the order of the loop
  doc,             \* the index of the file being processed
  manual_id,       \* build_database: manual_id
  manuals,         \* table crane_manuals
  cfgRows,         \* table crane_configurations
  pointRows        \* table load_chart_points

textVars ==
  <<text, parts, idx, configs, current_config, points, origin, seen, unique, k>>

pdfVars == <<data, layout, starts, ci, chunks>>

dbVars == <<pdfs, doc, manual_id, manuals, cfgRows, pointRows>>

vars == <<pc, textVars, pdfVars, dbVars>>

\* History entries of the rows one chunk appends.
Origins(chunk, r) ==
  [n \in 1..Len(r.triple) |-> [chunk |-> chunk, src |-> "triple"]]
    \o [n \in 1..Len(r.fallback) |-> [chunk |-> chunk, src |-> "fallback"]]

InitLocals ==
  /\ parts = <<>>
  /\ idx = 1
  /\ configs = <<>>
  /\ current_config = UNKNOWN
  /\ points = <<>>
  /\ origin = <<>>
  /\ seen = {}
  /\ unique = <<>>
  /\ k = 1

PdfIdle ==
  /\ data = <<>>
  /\ layout = <<>>
  /\ starts = <<>>
  /\ ci = 1
  /\ chunks = <<>>

DbIdle ==
  /\ pdfs = <<>>
  /\ doc = 1
  /\ manual_id = 0
  /\ manuals = <<>>
  /\ cfgRows = <<>>
  /\ pointRows = <<>>

\* The extractors on a text.
Init ==
  /\ text \in Texts
  /\ pc = "call_configs"
  /\ InitLocals
  /\ PdfIdle
  /\ DbIdle

\* extract_configurations(text): entry, configs = {} and the split.
CallConfigs ==
  /\ pc = "call_configs"
  /\ parts' = split_candidates(text)
  /\ idx' = 1
  /\ configs' = <<>>
  /\ pc' = "configs"
  /\ UNCHANGED <<text, current_config, points, origin, seen, unique, k>>
  /\ UNCHANGED <<pdfVars, dbVars>>

\* One iteration of its loop.
ConfigStep ==
  /\ pc = "configs"
  /\ idx <= Len(parts)
  /\ configs' = ConfigChunk(configs, parts[idx])
  /\ idx' = idx + 1
  /\ UNCHANGED <<text, pc, parts, current_config, points, origin, seen, unique, k>>
  /\ UNCHANGED <<pdfVars, dbVars>>

\* return configs
ReturnConfigs ==
  /\ pc = "configs"
  /\ idx > Len(parts)
  /\ pc' = "call_points"
  /\ UNCHANGED <<text, parts, idx, configs, current_config, points, origin, seen, unique, k>>
  /\ UNCHANGED <<pdfVars, dbVars>>

\* extract_load_points(text): entry.
CallPoints ==
  /\ pc = "call_points"
  /\ parts' = split_candidates(text)
  /\ idx' = 1
  /\ points' = <<>>
  /\ origin' = <<>>
  /\ current_config' = UNKNOWN
  /\ pc' = "points"
  /\ UNCHANGED <<text, configs, seen, unique, k>>
  /\ UNCHANGED <<pdfVars, dbVars>>

AppendChunk(r) ==
  /\ current_config' = r.config
  /\ points' = points \o r.triple \o r.fallback
  /\ origin' = origin \o Origins(idx, r)

\* One iteration of its first loop.
PointsStep ==
  /\ pc = "points"
  /\ idx <= Len(parts)
  /\ AppendChunk(PointsChunk(current_config, parts[idx]))
  /\ idx' = idx + 1
  /\ UNCHANGED <<text, pc, parts, configs, seen, unique, k>>
  /\ UNCHANGED <<pdfVars, dbVars>>

\* The first loop is over: seen = set(), unique = [].
BeginDedup ==
  /\ pc = "points"
  /\ idx > Len(parts)
  /\ seen' = {}
  /\ unique' = <<>>
  /\ k' = 1
  /\ pc' = "dedup"
  /\ UNCHANGED <<text, parts, idx, configs, current_config, points, origin>>
  /\ UNCHANGED <<pdfVars, dbVars>>

\* One iteration of the de-duplication loop.
DedupStep ==
  /\ pc = "dedup"
  /\ k <= Len(points)
  /\ seen' = DedupRow(seen, unique, points[k]).seen
  /\ unique' = DedupRow(seen, unique, points[k]).unique
  /\ k' = k + 1
  /\ UNCHANGED <<text, pc, parts, idx, configs, current_config, points, origin>>
  /\ UNCHANGED <<pdfVars, dbVars>>

\* return unique
ReturnPoints ==
  /\ pc = "dedup"
  /\ k > Len(points)
  /\ pc' = "done"
  /\ UNCHANGED <<text, parts, idx, configs, current_config, points, origin, seen, unique, k>>
  /\ UNCHANGED <<pdfVars, dbVars>>

Next ==
  \/ CallConfigs
  \/ ConfigStep
  \/ ReturnConfigs
  \/ CallPoints
  \/ PointsStep
  \/ BeginDedup
  \/ DedupStep
  \/ ReturnPoints

Spec == Init /\ [][Next]_vars

\* ------------------------------------------------------------------ files

Marker == <<"s", "t", "r", "e", "a", "m">>

Terminator == <<"e", "n", "d", "s", "t", "r", "e", "a", "m", "\n">>

LF == <<"\n">>

CRLF == <<"\r", "\n">>

\* The objects a file is written from:
\*   stream        marker, line end, compressed body, line end, terminator
\*   unterminated  marker, line end, compressed body
\*   raw           marker, bytes that are no deflate data, terminator
Objects ==
  {[kind |-> "stream", body |-> z, eol |-> LF] : z \in {"z1", "z3", "z4", "z5", "z6"}}
    \cup {[kind |-> "stream", body |-> "z2", eol |-> CRLF],
          [kind |-> "unterminated", body |-> "z1", eol |-> LF],
          [kind |-> "raw", body |-> "x", eol |-> LF]}

ObjectBytes(o) ==
  IF o.kind = "stream" THEN Marker \o o.eol \o <<o.body>> \o o.eol \o Terminator
  ELSE IF o.kind = "unterminated" THEN Marker \o o.eol \o <<o.body>>
  ELSE Marker \o o.eol \o <<o.body, o.body>> \o o.eol \o Terminator

RECURSIVE FileBytes(_, _)
FileBytes(objects, j) ==
  IF j > Len(objects) THEN <<>>
  ELSE ObjectBytes(objects[j]) \o FileBytes(objects, j + 1)

\* The most objects of one file.
MaxObjects == 3

RECURSIVE LayoutsOf(_)
LayoutsOf(n) ==
  IF n = 0 THEN {<<>>}
  ELSE {Append(l, o) : l \in LayoutsOf(n - 1), o \in Objects}

Layouts == UNION {LayoutsOf(n) : n \in 1..MaxObjects}

\* extract_pdf_text and the extractors on a file.
InitPdf ==
  /\ layout \in Layouts
  /\ data = FileBytes(layout, 1)
  /\ starts = <<>>
  /\ ci = 1
  /\ chunks = <<>>
  /\ text = <<>>
  /\ pc = "read"
  /\ InitLocals
  /\ DbIdle

\* data = path.read_bytes(), chunks = [] and the matches of the marker.
ReadFile ==
  /\ pc = "read"
  /\ starts' = StreamStarts(data)
  /\ ci' = 1
  /\ chunks' = <<>>
  /\ pc' = "decode"
  /\ UNCHANGED <<data, layout, textVars, dbVars>>

StepCandidate(r) ==
  IF r.outcome = "raise"
    THEN pc' = "error" /\ UNCHANGED <<chunks, ci>>
    ELSE pc' = pc /\ chunks' = chunks \o r.frags /\ ci' = ci + 1

\* One iteration of the loop of extract_pdf_text.
DecodeStep ==
  /\ pc = "decode"
  /\ ci <= Len(starts)
  /\ StepCandidate(Candidate(data, starts[ci]))
  /\ UNCHANGED <<data, layout, starts, textVars, dbVars>>

\* return text; build_database goes on with the extractors.
ReturnText ==
  /\ pc = "decode"
  /\ ci > Len(starts)
  /\ text' = JoinedText(chunks)
  /\ pc' = "call_configs"
  /\ UNCHANGED <<parts, idx, configs, current_config, points, origin, seen, unique, k>>
  /\ UNCHANGED <<pdfVars, dbVars>>

NextPdf ==
  \/ ReadFile
  \/ DecodeStep
  \/ ReturnText
  \/ Next

SpecPdf == InitPdf /\ [][NextPdf]_vars

\* ------------------------------------------------------------------ build_database

\* The files of the working directory: each is one object.
DbFiles ==
  {FileBytes(<<o>>, 1) :
     o \in {[kind |-> "stream", body |-> z, eol |-> LF] : z \in {"z3", "z6", "z7", "z8"}}
             \cup {[kind |-> "raw", body |-> "x", eol |-> LF]}}

\* The most files of the working directory.
MaxPdfs == 2

RECURSIVE FileListsOf(_)
FileListsOf(n) ==
  IF n = 0 THEN {<<>>}
  ELSE {Append(l, f) : l \in FileListsOf(n - 1), f \in DbFiles}

\* The place of a character of a configuration code in the order of str.
CodeRank(c) ==
  IF c = "-" THEN 0 ELSE CHOOSE n \in DOMAIN UpperSeq : UpperSeq[n] = c

\* a < b for two codes (str comparison).
CodeLess(a, b) ==
  \E n \in 1..(Min(Len(a), Len(b)) + 1) :
    /\ \A m \in 1..(n - 1) : a[m] = b[m]
    /\ \/ n > Len(a) /\ n <= Len(b)
       \/ n <= Len(a) /\ n <= Len(b) /\ CodeRank(a[n]) < CodeRank(b[n])

\* sorted(configs.items())
SortedItems(d) ==
  [r \in 1..Len(d) |->
     d[CHOOSE a \in DOMAIN d :
         Cardinality({b \in DOMAIN d : CodeLess(d[b][1], d[a][1])}) = r - 1]]

SentinelDescription ==
  <<"C", "o", "n", "f", "i", "g", "u", "r", "a", "t", "i", "o", "n", " ", "n", "o", "t", " ", "c", "o", "n", "f", "i", "d", "e", "n", "t", "l", "y", " ", "i",
    "d", "e", "n", "t", "i", "f", "i", "e", "d", " ", "f", "r", "o", "m", " ", "e", "x", "t", "r", "a", "c", "t", "e", "d", " ", "t", "e", "x", "t", ".">>

\* if not configs: configs = {"UNKNOWN": ...}
OrSentinel(d) == IF d = <<>> THEN <<<<UNKNOWN, SentinelDescription>>>> ELSE d

ConfigurationRows(id, items) ==
  [r \in DOMAIN items |->
     [manual_id |-> id, config_code |-> items[r][1], description |-> items[r][2]]]

PointRows(id, rows) ==
  [r \in DOMAIN rows |->
     [manual_id |-> id, config_code |-> rows[r][1], boom_length_m |-> rows[r][2],
      radius_m |-> rows[r][3], capacity_t |-> rows[r][4], raw_snippet |-> rows[r][5]]]

\* build_database on the files of a directory, after the tables are created.
InitDb ==
  /\ pdfs \in UNION {FileListsOf(n) : n \in 1..MaxPdfs}
  /\ doc = 1
  /\ manual_id = 0
  /\ manuals = <<>>
  /\ cfgRows = <<>>
  /\ pointRows = <<>>
  /\ text = <<>>
  /\ pc = "db_manual"
  /\ InitLocals
  /\ PdfIdle

\* text = extract_pdf_text(pdf), the row of crane_manuals (its id and its text
\* sample; the other columns are functions of the file alone), manual_id =
\* lastrowid.
InsertManual ==
  /\ pc = "db_manual"
  /\ doc <= Len(pdfs)
  /\ text' = extract_pdf_text(pdfs[doc])
  /\ manuals' = Append(manuals, [id |-> Len(manuals) + 1,
                                 extracted_text_sample |-> Prefix(text', 500)])
  /\ manual_id' = Len(manuals) + 1
  /\ pc' = "db_configs"
  /\ UNCHANGED <<parts, idx, configs, current_config, points, origin, seen, unique, k>>
  /\ UNCHANGED <<pdfs, doc, cfgRows, pointRows, pdfVars>>

\* configs = extract_configurations(text), the sentinel, the rows in key order.
InsertConfigurations ==
  /\ pc = "db_configs"
  /\ configs' = OrSentinel(extract_configurations(text))
  /\ cfgRows' = cfgRows \o ConfigurationRows(manual_id, SortedItems(configs'))
  /\ pc' = "db_points"
  /\ UNCHANGED <<text, parts, idx, current_config, points, origin, seen, unique, k>>
  /\ UNCHANGED <<pdfs, doc, manual_id, manuals, pointRows, pdfVars>>

\* points = extract_load_points(text) and their rows; then the next file.
InsertPoints ==
  /\ pc = "db_points"
  /\ unique' = extract_load_points(text)
  /\ pointRows' = pointRows \o PointRows(manual_id, unique')
  /\ doc' = doc + 1
  /\ pc' = "db_manual"
  /\ UNCHANGED <<text, parts, idx, configs, current_config, points, origin, seen, k>>
  /\ UNCHANGED <<pdfs, manual_id, manuals, cfgRows, pdfVars>>

\* conn.commit()
Commit ==
  /\ pc = "db_manual"
  /\ doc > Len(pdfs)
  /\ pc' = "db_done"
  /\ UNCHANGED <<textVars, pdfVars, dbVars>>

NextDb ==
  \/ InsertManual
  \/ InsertConfigurations
  \/ InsertPoints
  \/ Commit

SpecDb == InitDb /\ [][NextDb]_vars

\* ------------------------------------------------------------------ claims

\* The chunks the loop of extract_load_points has been through.
PointsDone ==
  IF pc = "points" THEN idx - 1
  ELSE IF pc \in {"dedup", "done"} THEN Len(parts)
  ELSE 0

\* The chunks the loop of extract_configurations has been through.
ConfigsDone ==
  IF pc = "call_configs" THEN 0
  ELSE IF pc = "configs" THEN idx - 1
  ELSE Len(parts)

\* The chunks, whitespace-normalized.
Norms == [j \in DOMAIN parts |-> NormWS(parts[j])]

\* The leading code token of each chunk of norm, <<>> where there is none.
LeadingCodes(norm) == [j \in DOMAIN norm |-> LeadingCode(norm[j])]

\* The chunks at or before i that begin with a code token.
CodeChunks(codes, i) == {j \in 1..i : codes[j] # <<>>}

\* Those of them that are at least 4 characters long.
LongCodeChunks(norm, codes, i) == {j \in CodeChunks(codes, i) : Len(norm[j]) >= 4}

\* The leading code of the last chunk of J, UNKNOWN when J is empty.
LastCodeOf(codes, J) == IF J = {} THEN UNKNOWN ELSE codes[SetMax(J)]

AsClaimedC1(codes) ==
  \A n \in DOMAIN points :
    points[n][1] = LastCodeOf(codes, CodeChunks(codes, origin[n].chunk))

\* C1 as claimed: every load point of chunk i carries the leading code of the
\* most recent chunk at or before i that begins with a code token, UNKNOWN when
\* there is none.
C1_AsClaimed == AsClaimedC1(LeadingCodes(Norms))

ConfigOfLastCodeChunk(norm, codes) ==
  /\ \A n \in DOMAIN points :
       points[n][1] = LastCodeOf(codes, LongCodeChunks(norm, codes, origin[n].chunk))
  /\ current_config = LastCodeOf(codes, LongCodeChunks(norm, codes, PointsDone))

\* C1 amended: every load point of chunk i carries the leading code of the most
\* recent chunk at or before i that is at least 4 characters long and begins
\* with a code token, UNKNOWN exactly when there is none; current_config keeps
\* that value over the chunks that follow, until such a chunk changes it.
\* Stated of every state of the loop over the chunks, which alone changes
\* points and current_config.
C1_ConfigOfLastCodeChunk ==
  pc = "points" => ConfigOfLastCodeChunk(Norms, LeadingCodes(Norms))

\* A load point of a chunk without a code carries the code of an earlier chunk.
C1_Witness ==
  \E n \in DOMAIN points :
    /\ origin[n].chunk >= 2
    /\ LeadingCode(NormWS(parts[origin[n].chunk])) = <<>>
    /\ points[n][1] # UNKNOWN

\* (config_code, boom_length_m, radius_m, capacity_t) of a row.
KeyOf(row) == <<row[1], row[2], row[3], row[4]>>

\* The rows of points that no earlier row duplicates.
FirstOccurrences ==
  {n \in DOMAIN points : \A m \in 1..(n - 1) : KeyOf(points[m]) # KeyOf(points[n])}

\* The r-th smallest element of the set of indices S.
NthOf(S, r) == CHOOSE n \in S : Cardinality({m \in S : m <= n}) = r

FirstOfEachKey(first) ==
  /\ \A a, b \in DOMAIN unique : a # b => KeyOf(unique[a]) # KeyOf(unique[b])
  /\ Len(unique) = Cardinality(first)
  /\ \A r \in DOMAIN unique : unique[r] = points[NthOf(first, r)]

\* C2: the returned list has no two rows with the same key, and it is the
\* subsequence of the emitted rows made of the first row of each key, in order
\* (so the snippet kept is the one of the earliest chunk).
C2_DedupFirstWins == pc = "done" => FirstOfEachKey(FirstOccurrences)

\* Two chunks produced the same key with different snippets; one row was kept.
C2_Witness ==
  /\ pc = "done"
  /\ \E m, n \in DOMAIN points :
       /\ m < n
       /\ KeyOf(points[m]) = KeyOf(points[n])
       /\ points[m][5] # points[n][5]
       /\ \E r \in DOMAIN unique : unique[r] = points[m]
       /\ \A r \in DOMAIN unique : unique[r] # points[n]

\* low <= v <= high, for a value v in hundredths.
InRange(v, low, high) == low * Scale <= v /\ v <= high * Scale

\* 0.5 <= v <= 5000, for a value v in hundredths.
CapacityInRange(v) == 50 <= v /\ v <= 500000

\* C3 as claimed: every triple-pattern point has boom and radius in [5, 200]
\* and capacity in [0.5, 5000].
C3_AsClaimed ==
  \A n \in DOMAIN points :
    origin[n].src = "triple" =>
      /\ InRange(points[n][2], 5, 200)
      /\ InRange(points[n][3], 5, 200)
      /\ CapacityInRange(points[n][4])

\* The values of a match of the triple pattern.
TripleValues(match) ==
  <<parse_float(match[1]), parse_float(match[2]), parse_float(match[3])>>

\* Boom in [5, 200], radius in [1, 200], capacity in [0.5, 5000].
InTripleRanges(v) ==
  /\ InRange(v[1], 5, 200)
  /\ InRange(v[2], 1, 200)
  /\ CapacityInRange(v[3])

\* Chunk j emitted a triple-pattern point with the values v.
EmittedTriple(j, v) ==
  \E n \in DOMAIN points :
    /\ origin[n] = [chunk |-> j, src |-> "triple"]
    /\ <<points[n][2], points[n][3], points[n][4]>> = v

\* The matches of chunk j with values in the ranges, and no others, emitted a
\* point.
TriplesEmitted(j, matches) ==
  \A m \in DOMAIN matches :
    InTripleRanges(TripleValues(matches[m]))
      <=> EmittedTriple(j, TripleValues(matches[m]))

TriplesEmittedOf(j, p) == Len(p) >= 4 => TriplesEmitted(j, TRIPLE_RE_findall(p))

\* C3 amended: every triple-pattern point has boom in [5, 200], radius in
\* [1, 200] and capacity in [0.5, 5000], bounds inclusive; and every triple of
\* a chunk that is not skipped whose values are in these ranges (capacities of
\* exactly 0.5 and 5000 among them) emits a triple-pattern point.  The second
\* part is stated of every state of the loop over the chunks.
C3_TripleRanges ==
  /\ \A n \in DOMAIN points :
       origin[n].src = "triple" =>
         InTripleRanges(<<points[n][2], points[n][3], points[n][4]>>)
  /\ pc = "points" =>
       \A j \in 1..PointsDone : TriplesEmittedOf(j, NormWS(parts[j]))

\* Triple-pattern points with a capacity of exactly 0.5 and of exactly 5000,
\* and a chunk with a triple that was rejected.
C3_Witness ==
  /\ \E n \in DOMAIN points : origin[n].src = "triple" /\ points[n][4] = 50
  /\ \E n \in DOMAIN points : origin[n].src = "triple" /\ points[n][4] = 500000
  /\ \E j \in 1..PointsDone :
       /\ Len(TRIPLE_RE_findall(NormWS(parts[j]))) > 0
       /\ \A n \in DOMAIN points : origin[n] # [chunk |-> j, src |-> "triple"]

\* The first of the candidates cands that is not on the stop-list.
FirstAllowed(cands, ok) == IF ok = {} THEN <<>> ELSE cands[SetMin(ok)]

AllowedAmong(cands) ==
  FirstAllowed(cands, {a \in DOMAIN cands : cands[a] \notin StopList})

\* The code the normalized chunk pn yields for extract_configurations, <<>>
\* when it yields none: the first candidate that is not on the stop-list, from
\* a chunk of at least 8 characters that contains a configuration hint.
Yield(pn) ==
  IF Len(pn) >= 8 /\ HasHint(Lower(pn))
    THEN AllowedAmong(CONFIG_CODE_RE_findall(pn))
    ELSE <<>>

\* The codes the chunks gone through yield.
Yields(norm) == [j \in 1..ConfigsDone |-> Yield(norm[j])]

FirstYieldOf(yield, code) == SetMin({j \in DOMAIN yield : yield[j] = code})

FirstChunkWins(norm, yield) ==
  /\ \A a, b \in DOMAIN configs : a # b => configs[a][1] # configs[b][1]
  /\ {configs[a][1] : a \in DOMAIN configs}
       = {yield[j] : j \in DOMAIN yield} \ {<<>>}
  /\ \A a \in DOMAIN configs :
       /\ configs[a][2] = Prefix(norm[FirstYieldOf(yield, configs[a][1])], 220)
       /\ Len(configs[a][2]) <= 220

\* C5: the mapping holds each yielded code once, with the description (cut to
\* 220 characters) of the first chunk that yields it; a later chunk with the
\* same code changes nothing.  Stated of every state of the loop of
\* extract_configurations, which alone changes the mapping.
C5_FirstChunkWins == pc = "configs" => FirstChunkWins(Norms, Yields(Norms))

TwoYields(norm, yield) ==
  \E i, j \in DOMAIN yield :
    /\ i < j
    /\ yield[i] # <<>>
    /\ yield[i] = yield[j]
    /\ norm[i] # norm[j]
    /\ \E a \in DOMAIN configs : configs[a] = <<yield[i], norm[i]>>

\* Two chunks yield the same code with different descriptions.
C5_Witness == TwoYields(Norms, Yields(Norms))

\* The first value of xs that is in [low, high] is v.
FirstPlausible(xs, low, high, v) ==
  \E a \in DOMAIN xs :
    /\ xs[a] = v
    /\ low <= v /\ v <= high
    /\ \A b \in 1..(a - 1) : ~(low <= xs[b] /\ xs[b] <= high)

\* The row is the fallback of the normalized chunk p: its boom is the first
\* plausible meter value and its capacity the first plausible ton value.
FallbackOf(row, p) ==
  /\ FirstPlausible(ParseAll(NUMBER_M_RE_findall(p)), 500, 20000, row[2])
  /\ FirstPlausible(ParseAll(NUMBER_T_RE_findall(p)), 50, 500000, row[4])

PresentValues(row, from) ==
  /\ row[4] # None
  /\ ~(row[2] = None /\ row[3] = None)
  /\ (row[3] = None) <=> (from.src = "fallback")
  /\ from.src = "triple" => row[2] # None /\ row[3] # None
  /\ from.src = "fallback" => FallbackOf(row, NormWS(parts[from.chunk]))

\* C8: every load point has a capacity and never lacks both boom and radius;
\* the radius is absent exactly on the points of the fallback pattern, whose
\* boom is the first plausible meter value and whose capacity is the first
\* plausible ton value of the chunk; a triple-pattern point has all three.
\* The emitted points are examined in every state of the loop over the chunks,
\* the returned ones are among them.
C8_PresentValues ==
  /\ pc = "points" => \A n \in DOMAIN points : PresentValues(points[n], origin[n])
  /\ \A r \in DOMAIN unique : \E n \in DOMAIN points : points[n] = unique[r]

\* A returned fallback point of a chunk whose first meter value and first ton
\* value are implausible.
C8_Witness ==
  /\ pc = "done"
  /\ \E r \in DOMAIN unique : \E n \in DOMAIN points :
       /\ points[n] = unique[r]
       /\ origin[n].src = "fallback"
       /\ ParseAll(NUMBER_M_RE_findall(NormWS(parts[origin[n].chunk])))[1] # unique[r][2]
       /\ ParseAll(NUMBER_T_RE_findall(NormWS(parts[origin[n].chunk])))[1] # unique[r][4]

\* C9: a chunk shorter than 4 characters (normalized) emits no load point and
\* leaves current_config unchanged, and a chunk shorter than 8 characters adds
\* no entry to the mapping of extract_configurations.
C9_ShortChunksSkipped ==
  [][ /\ ( /\ pc = "points"
           /\ idx <= Len(parts)
           /\ Len(NormWS(parts[idx])) < 4 )
         => (points' = points /\ current_config' = current_config)
      /\ ( /\ pc = "configs"
           /\ idx <= Len(parts)
           /\ Len(NormWS(parts[idx])) < 8 )
         => configs' = configs ]_vars

\* Both loops are over; a chunk that is a code token alone was skipped, and a
\* chunk of 4..7 characters with a hint and a code left no configuration.
C9_Witness ==
  /\ pc = "dedup"
  /\ \E j \in DOMAIN parts :
       /\ Len(NormWS(parts[j])) < 4
       /\ LeadingCode(NormWS(parts[j])) # <<>>
       /\ LeadingCode(NormWS(parts[j])) # current_config
  /\ \E j \in DOMAIN parts :
       /\ Len(NormWS(parts[j])) < 8
       /\ HasHint(Lower(NormWS(parts[j])))
       /\ CONFIG_CODE_RE_findall(NormWS(parts[j])) # <<>>
       /\ \A a \in DOMAIN configs :
            configs[a][1] # CONFIG_CODE_RE_findall(NormWS(parts[j]))[1]

\* The rows of points that chunk j appended with the pattern src.
RowsOf(j, src) == {n \in DOMAIN origin : origin[n] = [chunk |-> j, src |-> src]}

\* C10 as claimed: a chunk adds at most two load points before de-duplication.
C10_AsClaimed ==
  \A j \in DOMAIN parts :
    Cardinality(RowsOf(j, "triple") \cup RowsOf(j, "fallback")) <= 2

\* C10 amended: a chunk adds at most one load point from the fallback pattern
\* and at most one per match of the triple pattern in it.
C10_RowsPerChunk ==
  \A j \in DOMAIN parts :
    /\ Cardinality(RowsOf(j, "fallback")) <= 1
    /\ pc = "points" /\ RowsOf(j, "triple") # {} =>
         Cardinality(RowsOf(j, "triple")) <= Len(TRIPLE_RE_findall(NormWS(parts[j])))

\* A chunk with two triples added three load points.
C10_Witness ==
  \E j \in DOMAIN parts :
    /\ Cardinality(RowsOf(j, "triple")) = 2
    /\ Cardinality(RowsOf(j, "fallback")) = 1

\* The text a content stream shows, one fragment for each non-blank string
\* of its text-showing operations, in the order of the operations.
ShownInOrder ==
  [ z1 |-> <<<<"A">>>>,
    z2 |-> <<<<"B">>, <<"C">>>>,
    z3 |-> <<<<"M", "B", " ", "m", "a", "i", "n", " ", "b", "o", "o", "m">>,
             <<"|">>,
             <<"1", "2", " ", "m", " ", "8", " ", "m", " ", "4", "5", " ", "t">>>>,
    z4 |-> <<<<"D">>, <<"E">>>>,
    z5 |-> <<<<"F", "(", "x", ")">>, <<"H", "i">>>>,
    z6 |-> <<>> ]

\* An object whose compressed body can be read: it has a terminator of its
\* own, or one follows later in the file (bytes after the end of the
\* deflate data are ignored).
Readable(objects, j) ==
  \/ objects[j].kind = "stream"
  \/ /\ objects[j].kind = "unterminated"
     /\ \E n \in (j + 1)..Len(objects) : objects[n].kind # "unterminated"

RECURSIVE ShownFrom(_, _)
ShownFrom(objects, j) ==
  IF j > Len(objects) THEN <<>>
  ELSE (IF Readable(objects, j) THEN ShownInOrder[objects[j].body] ELSE <<>>)
         \o ShownFrom(objects, j + 1)

Decoded == pc \notin {"read", "decode", "error"}

Interleaved(o) == o.kind = "stream" /\ o.body = "z4"

\* C6 as stated: once the file is decoded, the fragments are the shown
\* strings of the file in the order of their text-showing operations,
\* stream by stream and, within a stream, operation by operation.
C6_AsClaimed == Decoded => chunks = ShownFrom(layout, 1)

\* The order is kept on the files where no stream has an array-show before
\* a string-show.
OrderWithoutInterleaving ==
  Decoded /\ (\A j \in DOMAIN layout : ~Interleaved(layout[j]))
    => chunks = ShownFrom(layout, 1)

\* C7: no run reaches the error outcome; a candidate without terminator, with
\* bytes that do not decompress or without text-showing operator adds nothing
\* and the loop goes on; when no candidate yields text the text is empty, and
\* on the empty text the mapping of configurations and the list of load
\* points are empty.
C7_NeverRaises ==
  /\ pc # "error"
  /\ Decoded /\ ShownFrom(layout, 1) = <<>> => text = <<>>
  /\ pc = "done" /\ text = <<>> => configs = <<>> /\ unique = <<>>

C7_Witness ==
  /\ pc = "done"
  /\ text = <<>>
  /\ \E j \in DOMAIN layout : layout[j].kind = "raw"
  /\ \E j \in DOMAIN layout : layout[j].kind = "stream" /\ layout[j].body = "z6"
  /\ layout[Len(layout)].kind = "unterminated"
  /\ ci = Len(starts) + 1
  /\ Len(starts) > Len(layout)

\* C4 as stated: every row of load_chart_points has the config_code of a row
\* of crane_configurations of the same manual_id.
C4_AsClaimed ==
  pc \in {"db_manual", "db_done"} =>
    \A r \in DOMAIN pointRows :
      \E c \in DOMAIN cfgRows :
        /\ cfgRows[c].manual_id = pointRows[r].manual_id
        /\ cfgRows[c].config_code = pointRows[r].config_code

\* Every processed file has at least one row of crane_configurations, and
\* the rows of load_chart_points carry the manual_id of a processed file.
EveryManualHasConfiguration ==
  pc \in {"db_manual", "db_done"} =>
    /\ \A m \in DOMAIN manuals :
         \E c \in DOMAIN cfgRows : cfgRows[c].manual_id = manuals[m].id
    /\ \A r \in DOMAIN pointRows :
         \E m \in DOMAIN manuals : manuals[m].id = pointRows[r].manual_id

====
